---- MODULE Spec2Model ----
(***************************************************************************)
(* A model of coalib/core/Core.py: the dependency initializer              *)
(* (initialize_dependencies), the scheduler (schedule_bears), the          *)
(* completion handler (finish_task), the driver (run) and the file loader  *)
(* (load_files).                                                           *)
(*                                                                         *)
(* DependencyTracker and traverse_graph are imported by Core.py from       *)
(* modules that are not part of the sources at hand; they are modelled     *)
(* from their description in the specification (sections 4.1 and 4.2).     *)
(* The argument order of DependencyTracker.add follows its call site at    *)
(* Core.py:273-274: the first argument is the dependency (the instance of  *)
(* next_bear_type), the second the bear that depends on it.                *)
(***************************************************************************)
EXTENDS Integers, Sequences, FiniteSets, Bags, TLC

\* Largest number of bears handed to initialize_dependencies on its own.
MaxSeeds == 3

\* Largest number of bears handed to run.
MaxSessionSeeds == 2

\* Largest number of tasks submitted to the executor in one session: the
\* generate_tasks() of the bears yield at most this many entries altogether.
MaxSubmitted == 3

\* Largest number of bears handed to load_files.
MaxLoadBears == 3

\* Largest number of filenames get_filenames_from_section yields for a section.
MaxFilenames == 2

\* The sections and file-dictionaries bears are bound to.
Sections == {"s1", "s2"}

FileDicts == {"f1"}

\* The bear classes of the sessions and their DEPENDENCIES lists:
\* A is independent, B needs A, C needs A and B, E and F need each other
\* and F needs itself.
Types == {"A", "B", "C", "E", "F"}

DEPENDENCIES ==
    [A |-> <<>>, B |-> <<"A">>, C |-> <<"A", "B">>, E |-> <<"F">>,
     F |-> <<"E", "F">>]

\* What one execute_task may return: an iterable of result records.
Results == {<<>>, <<"r1", "r2">>}

\* A bear instance. seed tells the instances supplied by the caller from those
\* constructed by initialize_dependencies; n tells apart instances that agree
\* in everything else (it is the object identity).
Bear(seed, n, type, section, file_dict) ==
    [seed |-> seed, n |-> n, type |-> type, section |-> section,
     file_dict |-> file_dict]

\* The placeholder in the instance field of a traversal node that is a type.
NoBear == Bear(FALSE, 0, "A", "s1", "f1")

(***************************************************************************)
(* DependencyTracker: a set of edges <<dependency, dependant>>.            *)
(***************************************************************************)

\* DependencyTracker.add(dependency, dependant)
TrackerAdd(tracker, dependency, dependant) ==
    tracker \cup {<<dependency, dependant>>}

\* DependencyTracker.get_dependencies(dependant): its unresolved dependencies.
get_dependencies(tracker, dependant) ==
    {e[1] : e \in {x \in tracker : x[2] = dependant}}

\* DependencyTracker.get_all_dependencies(): every bear something depends on.
get_all_dependencies(tracker) ==
    {e[1] : e \in tracker}

\* The tracker after DependencyTracker.resolve(dependency).
ResolveTracker(tracker, dependency) ==
    {e \in tracker : e[1] # dependency}

\* The return value of DependencyTracker.resolve(dependency): the dependants
\* whose last unresolved dependency this call removed.
ResolveReleased(tracker, dependency) ==
    {d \in {e[2] : e \in {x \in tracker : x[1] = dependency}} :
        get_dependencies(ResolveTracker(tracker, dependency), d) = {}}

(***************************************************************************)
(* initialize_dependencies                                                 *)
(***************************************************************************)

\* The nodes traverse_graph walks: the bears of a group (instances) and the
\* types their DEPENDENCIES lead to.
InstNode(bear) == [inst |-> bear, type |-> bear.type]

TypeNode(type) == [inst |-> NoBear, type |-> type]

\* The key of groupby at Core.py:252.
GroupKey(bear) == <<bear.section, bear.file_dict>>

\* itertools.groupby: the runs of consecutive bears with the same key, in
\* iteration order.
RECURSIVE GroupBy(_)
GroupBy(bears) ==
    IF bears = <<>> THEN <<>>
    ELSE LET rest == GroupBy(Tail(bears))
         IN  IF rest # <<>> /\ GroupKey(Head(rest)[1]) = GroupKey(Head(bears))
             THEN <<(<<Head(bears)>> \o Head(rest))>> \o Tail(rest)
             ELSE <<(<<Head(bears)>>)>> \o rest

\* SeedMap with a type bound once only: the entry of a type is not
\* overwritten by a later bear of the type.
RECURSIVE SeedMapKeepFirst(_, _)
SeedMapKeepFirst(bears_per_section, type_to_instance_map) ==
    IF bears_per_section = <<>> THEN type_to_instance_map
    ELSE LET bear == Head(bears_per_section)
         IN  SeedMapKeepFirst(Tail(bears_per_section),
                     type_to_instance_map @@ (InstNode(bear) :> bear)
                        @@ (TypeNode(bear.type) :> bear))

\* The loop at Core.py:264-266: every bear of the group is mapped to itself
\* and its type is mapped to it; a later bear of the same type overwrites
\* the type's entry.
RECURSIVE SeedMap(_, _)
SeedMap(bears_per_section, type_to_instance_map) ==
    IF bears_per_section = <<>> THEN type_to_instance_map
    ELSE LET bear == Head(bears_per_section)
         IN  SeedMap(Tail(bears_per_section),
                     (InstNode(bear) :> bear) @@ (TypeNode(bear.type) :> bear)
                        @@ type_to_instance_map)

\* instantiate_and_track that constructs every dependency with the first
\* section: one instance of a type serves the groups of all sections.
InstantiateForFirstSection(prev, next_bear_type, st) ==
    LET next == TypeNode(next_bear_type)
        fresh == Bear(FALSE, 1, next_bear_type, "s1", st.file_dict)
        made == next \notin DOMAIN st.map
        map1 == IF made THEN (next :> fresh) @@ st.map ELSE st.map
    IN  [st EXCEPT
            !.map = map1,
            !.instantiated = IF made THEN @ \cup {fresh} ELSE @,
            !.tracker = TrackerAdd(@, map1[next], map1[prev])]

\* The visitor of Core.py:268-274 applied to the edge (prev, next_bear_type).
\* st carries the group's section, file_dict and number, its
\* type_to_instance_map, the tracker and the instances constructed so far.
instantiate_and_track(prev, next_bear_type, st) ==
    LET next == TypeNode(next_bear_type)
        fresh == Bear(FALSE, st.group, next_bear_type, st.section, st.file_dict)
        made == next \notin DOMAIN st.map
        map1 == IF made THEN (next :> fresh) @@ st.map ELSE st.map
    IN  [st EXCEPT
            !.map = map1,
            !.instantiated = IF made THEN @ \cup {fresh} ELSE @,
            !.tracker = TrackerAdd(@, map1[next], map1[prev])]

\* traverse_graph, the expansion of one node: every successor whose edge was
\* not seen yet is marked seen, visited and pushed onto the frontier.
RECURSIVE ExpandNode(_, _, _)
ExpandNode(node, i, st) ==
    IF i > Len(DEPENDENCIES[node.type]) THEN st
    ELSE LET next_type == DEPENDENCIES[node.type][i]
             edge == <<node, TypeNode(next_type)>>
         IN  IF edge \in st.seen THEN ExpandNode(node, i + 1, st)
             ELSE ExpandNode(node, i + 1,
                    instantiate_and_track(node, next_type,
                        [st EXCEPT !.seen = @ \cup {edge},
                                   !.frontier = Append(@, TypeNode(next_type))]))

\* traverse_graph: expand the nodes of the frontier until it is empty.
RECURSIVE traverse_graph(_)
traverse_graph(st) ==
    IF st.frontier = <<>> THEN st
    ELSE traverse_graph(
            ExpandNode(Head(st.frontier), 1, [st EXCEPT !.frontier = Tail(@)]))

\* The body of the loop at Core.py:253-278 for the group number g.
RECURSIVE ProcessGroups(_, _, _, _)
ProcessGroups(groups, g, tracker, instantiated) ==
    IF g > Len(groups) THEN [tracker |-> tracker, instantiated |-> instantiated]
    ELSE LET bears_per_section == groups[g]
             st == traverse_graph(
                     [frontier |-> [i \in 1..Len(bears_per_section) |->
                                        InstNode(bears_per_section[i])],
                      seen |-> {},
                      map |-> SeedMap(bears_per_section, <<>>),
                      tracker |-> tracker,
                      instantiated |-> instantiated,
                      group |-> g,
                      section |-> bears_per_section[1].section,
                      file_dict |-> bears_per_section[1].file_dict])
         IN  ProcessGroups(groups, g + 1, st.tracker, st.instantiated)

\* ReadyBears without Core.py:287-289: the dependency instances that have no
\* dependencies are not added.
ReadyBearsSeedsOnly(bears, tracker) ==
    bears \ {bear \in bears : get_dependencies(tracker, bear) # {}}

\* ReadyBears without Core.py:282-283: the bears with unresolved dependencies
\* are not excluded.
ReadyBearsKeepBlocked(bears, tracker) ==
    bears \cup {dependency \in get_all_dependencies(tracker) :
                  get_dependencies(tracker, dependency) = {}}

\* The set of bears to schedule, Core.py:282-289.
ReadyBears(bears, tracker) ==
    (bears \ {bear \in bears : get_dependencies(tracker, bear) # {}})
        \cup {dependency \in get_all_dependencies(tracker) :
                get_dependencies(tracker, dependency) = {}}

\* initialize_dependencies(bears), where order is the order in which the set
\* of bears is iterated at Core.py:252.
initialize_dependencies(order) ==
    LET bears == {order[i] : i \in 1..Len(order)}
        done == ProcessGroups(GroupBy(order), 1, {}, {})
    IN  [dependency_tracker |-> done.tracker,
         bears_to_schedule |-> ReadyBears(bears, done.tracker),
         instantiated |-> done.instantiated]

(***************************************************************************)
(* The session: run, schedule_bears, finish_task                           *)
(***************************************************************************)

VARIABLES
    pc,                 \* "start", "initialized", "run_forever" or "closed"
    seeds,              \* the bears passed to run
    dependency_tracker, \* the tracker initialize_dependencies returned
    instantiated,       \* the instances initialize_dependencies constructed
    bears_to_schedule,  \* the set initialize_dependencies returned
    initial_tracker,    \* the tracker as initialize_dependencies returned it
    running_tasks,      \* bear -> the tasks of it whose handler has not run
    stopping,           \* event_loop.stop() was called
    scheduled,          \* bag: how often a bear had its tasks generated
    generated,          \* bear -> number of entries its generate_tasks yielded
    submitted,          \* bag: how often execute_task was submitted per entry
    finished,           \* the tasks whose finish_task has run
    handled,            \* what the most recent finish_task met
    grouping,           \* the groups of groupby, Core.py:252, for Initialize
    resolved,           \* bag: how often dependency_tracker.resolve got a bear
    given,              \* the bears of the most recent schedule_bears call
    load_pc,            \* load_files: "unused", "groups", "files", "returned"
    load_bears,         \* load_files: the sections of its bears, in order
    filenames_of,       \* section -> what get_filenames_from_section yields
    unreadable,         \* the files whose open or readlines raises
    group_i,            \* load_files: the number of the group at hand
    file_i,             \* load_files: the number of the filename at hand
    file_dict,          \* load_files: the file_dict of the group at hand
    master_file_dict,   \* load_files: master_file_dict
    corrupt_files,      \* load_files: corrupt_files
    section_to_file_dict, \* load_files: section_to_file_dict
    returned,           \* what load_files returned
    opened              \* bag: how often open() was called on a filename

\* The variables of load_files.
loadVars ==
    <<load_pc, load_bears, filenames_of, unreadable, group_i, file_i,
      file_dict, master_file_dict, corrupt_files, section_to_file_dict,
      returned, opened>>

vars ==
    <<pc, seeds, dependency_tracker, instantiated, bears_to_schedule,
      initial_tracker, running_tasks, stopping, scheduled, generated,
      submitted, finished, handled, grouping, resolved, given, loadVars>>

\* The empty mapping.
EmptyMap == [x \in {} |-> 0]

\* The records of a sequence as a bag.
RECURSIVE BagOf(_)
BagOf(records) ==
    IF records = <<>> THEN EmptyBag
    ELSE SetToBag({Head(records)}) (+) BagOf(Tail(records))

\* The sets of at most max seed bears. Seeds of the same type, section and
\* file-dictionary are numbered 1, 2, ... without gaps.
RECURSIVE SeedSets(_)
SeedSets(max) ==
    IF max = 0 THEN {{}}
    ELSE LET smaller == SeedSets(max - 1)
         IN  smaller \cup
             {S \cup {Bear(TRUE,
                           1 + Cardinality({b \in S : /\ b.type = t
                                                      /\ b.section = s
                                                      /\ b.file_dict = f}),
                           t, s, f)} :
                S \in smaller, t \in Types, s \in Sections, f \in FileDicts}

\* The seed sets of the sessions. Sections are opaque and interchangeable,
\* so of two seed sets that differ in the names of the sections only the one
\* with no fewer bears in "s1" is taken.
SessionSeedSets ==
    {S \in SeedSets(MaxSessionSeeds) :
        Cardinality({b \in S : b.section = "s1"})
            >= Cardinality({b \in S : b.section # "s1"})}

\* The orders in which a set can be iterated.
Orders(S) ==
    {order \in [1..Cardinality(S) -> S] :
        \A i, j \in 1..Cardinality(S) : order[i] = order[j] => i = j}

\* ScheduledNow without the test of Core.py:50: no bear is held back.
ScheduledNowAll(bears, tracker) ==
    bears

\* schedule_bears(bears, ...) on the running map; gen[bear] is the number of
\* entries bear.generate_tasks() yields. A task is the pair of the bear and
\* the number of its entry.
ScheduledNow(bears, tracker) ==
    {bear \in bears : get_dependencies(tracker, bear) = {}}

schedule_bears(bears, tracker, running, gen) ==
    [bear \in DOMAIN running \cup ScheduledNow(bears, tracker) |->
        IF bear \in ScheduledNow(bears, tracker)
        THEN {<<bear, i>> : i \in 1..gen[bear]}
        ELSE running[bear]]

\* The sum of f over the set S.
RECURSIVE SumOver(_, _)
SumOver(f, S) ==
    IF S = {} THEN 0
    ELSE LET x == CHOOSE y \in S : TRUE IN f[x] + SumOver(f, S \ {x})

\* What the generate_tasks() of the given bears may yield: gen[bear] entries
\* for each bear, within what is left of MaxSubmitted.
TaskCounts(bears) ==
    {gen \in [bears -> 0..MaxSubmitted] :
        BagCardinality(submitted) + SumOver(gen, bears) <= MaxSubmitted}

\* The history of one call of schedule_bears.
NoteScheduled(bears, tracker, gen) ==
    /\ scheduled' = scheduled (+) SetToBag(ScheduledNow(bears, tracker))
    /\ generated' = [bear \in ScheduledNow(bears, tracker) |-> gen[bear]]
                        @@ generated
    /\ submitted' = submitted (+)
            SetToBag(UNION {{<<bear, i>> : i \in 1..gen[bear]} :
                                bear \in ScheduledNow(bears, tracker)})

\* What task.result() does in finish_task: it raises the exception of
\* execute_task, or returns the records execute_task returned.
TaskResults ==
    {[raised |-> TRUE, records |-> <<>>]}
        \cup {[raised |-> FALSE, records |-> r] : r \in Results}

\* What the try block of finish_task passes to result_callback: nothing when
\* task.result() raises, else the records up to and including the one on
\* which result_callback raises (fails = 0: it never raises).
Passed(result, fails) ==
    IF result.raised THEN <<>>
    ELSE IF fails = 0 THEN result.records
         ELSE SubSeq(result.records, 1, fails)

\* The try and except blocks of finish_task, Core.py:108-113, on a task with
\* the given result: the records the task returned, the records passed to
\* result_callback, and whether an exception was caught and logged.
Handle(result, fails) ==
    [ran |-> TRUE,
     raised |-> result.raised,
     returned |-> result.records,
     passed |-> Passed(result, fails),
     logged |-> result.raised \/ fails > 0]

\* No finish_task has run yet.
NoTask ==
    [ran |-> FALSE, raised |-> FALSE, returned |-> <<>>, passed |-> <<>>,
     logged |-> FALSE]

\* load_files is not called: run takes bears that have their files.
LoadUnused ==
    /\ load_pc = "unused"
    /\ load_bears = <<>>
    /\ filenames_of = EmptyMap
    /\ unreadable = {}
    /\ group_i = 0
    /\ file_i = 0
    /\ file_dict = EmptyMap
    /\ master_file_dict = EmptyMap
    /\ corrupt_files = {}
    /\ section_to_file_dict = EmptyMap
    /\ returned = EmptyMap
    /\ opened = EmptyBag

Init ==
    /\ pc = "start"
    /\ seeds \in SessionSeedSets
    /\ dependency_tracker = {}
    /\ instantiated = {}
    /\ bears_to_schedule = {}
    /\ initial_tracker = {}
    /\ running_tasks = EmptyMap
    /\ stopping = FALSE
    /\ scheduled = EmptyBag
    /\ generated = EmptyMap
    /\ submitted = EmptyBag
    /\ finished = {}
    /\ handled = NoTask
    /\ grouping = <<>>
    /\ resolved = EmptyBag
    /\ given = {}
    /\ LoadUnused

\* initialize_dependencies applied on its own to a set of bears.
Initialize ==
    /\ pc = "start"
    /\ \E order \in Orders(seeds) :
         LET init == initialize_dependencies(order)
         IN  /\ dependency_tracker' = init.dependency_tracker
             /\ initial_tracker' = init.dependency_tracker
             /\ instantiated' = init.instantiated
             /\ bears_to_schedule' = init.bears_to_schedule
             /\ grouping' = GroupBy(order)
    /\ pc' = "initialized"
    /\ UNCHANGED <<seeds, running_tasks, stopping, scheduled, generated,
                   submitted, finished, handled, resolved, given, loadVars>>

\* run up to event_loop.run_forever(): initialize_dependencies and the first
\* schedule_bears, on an empty running map.
Run ==
    /\ pc = "start"
    /\ \E order \in Orders(seeds) :
         LET init == initialize_dependencies(order)
         IN  /\ dependency_tracker' = init.dependency_tracker
             /\ initial_tracker' = init.dependency_tracker
             /\ instantiated' = init.instantiated
             /\ bears_to_schedule' = init.bears_to_schedule
             /\ given' = init.bears_to_schedule
             /\ \E gen \in TaskCounts(init.bears_to_schedule) :
                  /\ running_tasks' = schedule_bears(init.bears_to_schedule,
                        init.dependency_tracker, EmptyMap, gen)
                  /\ NoteScheduled(init.bears_to_schedule,
                        init.dependency_tracker, gen)
    /\ pc' = "run_forever"
    /\ UNCHANGED <<seeds, stopping, finished, handled, grouping, resolved,
                   loadVars>>

\* remove_task placed in the try block: a task that raised, or whose records
\* made result_callback raise, stays in the running map.
RemoveTaskOnSuccess(caught, running, bear, task) ==
    IF caught THEN running ELSE [running EXCEPT ![bear] = @ \ {task}]

\* Core.py:115, in the finally block: the task is removed from the tasks of
\* its bear whether or not an exception was caught.
remove_task(caught, running, bear, task) ==
    [running EXCEPT ![bear] = @ \ {task}]

\* bear_done without the test of Core.py:116: every task counts as the last.
BearDoneAlways(running, bear) ==
    TRUE

\* Core.py:116: no task of the bear is left.
bear_done(running, bear) ==
    running[bear] = {}

\* resolved_bears that takes every bear without unresolved dependencies, not
\* only those the resolved bear released.
ResolvedBearsAllReady(tracker, bear) ==
    {b \in seeds \cup instantiated :
        get_dependencies(ResolveTracker(tracker, bear), b) = {}}

\* resolved_bears that drops what resolve returns: the released bears are
\* not handed to schedule_bears.
ResolvedBearsDropped(tracker, bear) ==
    {}

\* Core.py:117: the bears dependency_tracker.resolve(bear) returns.
resolved_bears(tracker, bear) ==
    ResolveReleased(tracker, bear)

\* Core.py:124: del running_tasks[bear].
delete_bear(running, bear) ==
    [b \in DOMAIN running \ {bear} |-> running[b]]

\* loop_drained without the test of Core.py:126: the loop is stopped after
\* every finish_task.
LoopDrainedAlways(running) ==
    TRUE

\* Core.py:126: no bear is left in the running map.
loop_drained(running) ==
    DOMAIN running = {}

\* The callback finish_task for a completed task of bear. The task returned
\* result or raised; result_callback raises on the record number fails.
FinishTask(bear, task) ==
    /\ pc = "run_forever"
    /\ bear \in DOMAIN running_tasks
    /\ task \in running_tasks[bear]
    /\ \E result \in TaskResults : \E fails \in 0..Len(result.records) :
         LET met == Handle(result, fails)
             retired == remove_task(met.logged, running_tasks, bear, task)
             done == bear_done(retired, bear)
             released == IF done THEN resolved_bears(dependency_tracker, bear)
                         ELSE {}
             tracker == IF done THEN ResolveTracker(dependency_tracker, bear)
                        ELSE dependency_tracker
         IN  /\ handled' = met
             /\ dependency_tracker' = tracker
             /\ resolved' = IF done THEN resolved (+) SetToBag({bear})
                             ELSE resolved
             /\ given' = IF released # {} THEN released ELSE given
             /\ \E gen \in TaskCounts(released) :
                  /\ running_tasks' =
                        IF done
                        THEN delete_bear(
                               schedule_bears(released, tracker, retired, gen),
                               bear)
                        ELSE retired
                  /\ NoteScheduled(released, tracker, gen)
    /\ finished' = finished \cup {task}
    /\ stopping' = (stopping \/ loop_drained(running_tasks'))
    /\ UNCHANGED <<pc, seeds, instantiated, bears_to_schedule, initial_tracker,
                   grouping, loadVars>>

\* event_loop.run_forever() returns once stop() was called; run closes the
\* loop and returns.
Return ==
    /\ pc = "run_forever"
    /\ stopping
    /\ pc' = "closed"
    /\ UNCHANGED <<seeds, dependency_tracker, instantiated, bears_to_schedule,
                   initial_tracker, running_tasks, stopping, scheduled,
                   generated, submitted, finished, handled, grouping,
                   resolved, given, loadVars>>

Next ==
    \/ Run
    \/ \E bear \in DOMAIN running_tasks : \E task \in running_tasks[bear] :
          FinishTask(bear, task)
    \/ Return

\* The sessions of run.
Spec == Init /\ [][Next]_vars

\* initialize_dependencies on every set of at most MaxSeeds bears.
InitDeps ==
    /\ pc = "start"
    /\ seeds \in SeedSets(MaxSeeds)
    /\ dependency_tracker = {}
    /\ instantiated = {}
    /\ bears_to_schedule = {}
    /\ initial_tracker = {}
    /\ running_tasks = EmptyMap
    /\ stopping = FALSE
    /\ scheduled = EmptyBag
    /\ generated = EmptyMap
    /\ submitted = EmptyBag
    /\ finished = {}
    /\ handled = NoTask
    /\ grouping = <<>>
    /\ resolved = EmptyBag
    /\ given = {}
    /\ LoadUnused

NextDeps == Initialize

SpecDeps == InitDeps /\ [][NextDeps]_vars

\* schedule_bears called on its own, with an empty running map, the tracker
\* initialize_dependencies returned and any of the bears of that tracker.
Schedule ==
    /\ pc = "initialized"
    /\ \E bears \in SUBSET (seeds \cup instantiated) :
         /\ given' = bears
         /\ \E gen \in TaskCounts(ScheduledNow(bears, dependency_tracker)) :
              /\ running_tasks' =
                    schedule_bears(bears, dependency_tracker, EmptyMap, gen)
              /\ NoteScheduled(bears, dependency_tracker, gen)
    /\ pc' = "scheduled"
    /\ UNCHANGED <<seeds, dependency_tracker, instantiated, bears_to_schedule,
                   initial_tracker, stopping, finished, handled, grouping,
                   resolved, loadVars>>

NextSchedule ==
    \/ Initialize
    \/ Schedule

\* The calls of schedule_bears with any bears.
SpecSchedule == Init /\ [][NextSchedule]_vars

(***************************************************************************)
(* load_files                                                              *)
(***************************************************************************)

\* The files the sections name.
Filenames == {"a.py", "b.py"}

\* What tuple(fl.readlines()) yields for a file that can be read.
Lines == [f \in Filenames |-> IF f = "a.py" THEN <<"l1", "l2">> ELSE <<"l3">>]

\* The sequences over S of at most n entries.
SeqsUpTo(S, n) == UNION {[1..k -> S] : k \in 0..n}

\* groupby(bears, key=lambda bear: bear.section), Core.py:174: the sections of
\* the runs of consecutive bears of one section, in order. A bear is given
\* by its section, the only attribute load_files reads.
RECURSIVE SectionGroups(_)
SectionGroups(bears) ==
    IF Len(bears) <= 1 THEN bears
    ELSE LET rest == SectionGroups(Tail(bears))
         IN  IF Head(rest) = Head(bears) THEN rest ELSE <<Head(bears)>> \o rest

\* The filenames of the group at hand, Core.py:176.
filenames == filenames_of[SectionGroups(load_bears)[group_i]]

\* note_corrupt without Core.py:195 and 200: a file that failed to load is
\* not remembered.
NoteCorruptNever(corrupt, filename) ==
    corrupt

\* Core.py:195 and 200: corrupt_files.add(filename).
note_corrupt(corrupt, filename) ==
    corrupt \cup {filename}

\* load_files on the bears load_bears.
InitLoad ==
    /\ pc = "load_files"
    /\ seeds = {}
    /\ dependency_tracker = {}
    /\ instantiated = {}
    /\ bears_to_schedule = {}
    /\ initial_tracker = {}
    /\ running_tasks = EmptyMap
    /\ stopping = FALSE
    /\ scheduled = EmptyBag
    /\ generated = EmptyMap
    /\ submitted = EmptyBag
    /\ finished = {}
    /\ handled = NoTask
    /\ grouping = <<>>
    /\ resolved = EmptyBag
    /\ given = {}
    /\ load_pc = "groups"
    /\ load_bears \in SeqsUpTo(Sections, MaxLoadBears)
    /\ filenames_of \in [Sections -> SeqsUpTo(Filenames, MaxFilenames)]
    /\ unreadable \in SUBSET Filenames
    /\ group_i = 1
    /\ file_i = 1
    /\ file_dict = EmptyMap
    /\ master_file_dict = EmptyMap
    /\ corrupt_files = {}
    /\ section_to_file_dict = EmptyMap
    /\ returned = EmptyMap
    /\ opened = EmptyBag

\* What load_files leaves alone.
LoadFrame ==
    UNCHANGED <<pc, seeds, dependency_tracker, instantiated, bears_to_schedule,
                initial_tracker, running_tasks, stopping, scheduled, generated,
                submitted, finished, handled, grouping, resolved, given,
                load_bears, filenames_of, unreadable>>

\* Core.py:174-178: groupby yields the next group, its filenames are
\* collected and its file_dict starts empty.
LoadGroup ==
    /\ load_pc = "groups"
    /\ group_i <= Len(SectionGroups(load_bears))
    /\ load_pc' = "files"
    /\ file_i' = 1
    /\ file_dict' = EmptyMap
    /\ UNCHANGED <<group_i, master_file_dict, corrupt_files,
                   section_to_file_dict, returned, opened>>
    /\ LoadFrame

\* Core.py:179-200: one round of the loop over the filenames of the group.
LoadFile ==
    /\ load_pc = "files"
    /\ file_i <= Len(filenames)
    /\ LET filename == filenames[file_i]
       IN  IF filename \in DOMAIN master_file_dict
           THEN /\ file_dict' =
                      (filename :> master_file_dict[filename]) @@ file_dict
                /\ UNCHANGED <<master_file_dict, corrupt_files, opened>>
           ELSE IF filename \in corrupt_files
           THEN UNCHANGED <<file_dict, master_file_dict, corrupt_files, opened>>
           ELSE /\ opened' = opened (+) SetToBag({filename})
                /\ IF filename \in unreadable
                   THEN /\ corrupt_files' = note_corrupt(corrupt_files, filename)
                        /\ UNCHANGED <<file_dict, master_file_dict>>
                   ELSE /\ file_dict' = (filename :> Lines[filename]) @@ file_dict
                        /\ master_file_dict' =
                              (filename :> Lines[filename]) @@ master_file_dict
                        /\ UNCHANGED corrupt_files
    /\ file_i' = file_i + 1
    /\ UNCHANGED <<load_pc, group_i, section_to_file_dict, returned>>
    /\ LoadFrame

\* The loop over the filenames is through: the file_dict of the group is
\* dropped, nothing is stored for its section, and groupby is asked for the
\* next group.
EndGroup ==
    /\ load_pc = "files"
    /\ file_i > Len(filenames)
    /\ load_pc' = "groups"
    /\ group_i' = group_i + 1
    /\ UNCHANGED <<file_i, file_dict, master_file_dict, corrupt_files,
                   section_to_file_dict, returned, opened>>
    /\ LoadFrame

\* Core.py:202-205: no group is left, section_to_file_dict is returned.
LoadReturn ==
    /\ load_pc = "groups"
    /\ group_i > Len(SectionGroups(load_bears))
    /\ load_pc' = "returned"
    /\ returned' = section_to_file_dict
    /\ UNCHANGED <<group_i, file_i, file_dict, master_file_dict, corrupt_files,
                   section_to_file_dict, opened>>
    /\ LoadFrame

NextLoad ==
    \/ LoadGroup
    \/ LoadFile
    \/ EndGroup
    \/ LoadReturn

\* The calls of load_files.
SpecLoad == InitLoad /\ [][NextLoad]_vars

(***************************************************************************)
(* Properties                                                              *)
(***************************************************************************)

\* The tasks submitted for a scheduled bear.
TasksOf(bear) == {<<bear, i>> : i \in 1..generated[bear]}

\* The edges left when the edges whose dependency depends on nothing are
\* removed again and again.
RECURSIVE Peel(_)
Peel(edges) ==
    LET free == {e \in edges : ~ \E x \in edges : x[2] = e[1]}
    IN  IF free = {} THEN edges ELSE Peel(edges \ free)

\* No bear depends, directly or transitively, on itself.
Acyclic(edges) == Peel(edges) = {}

\* The bears of one section and file-dictionary.
SameGroup(a, b) == a.section = b.section /\ a.file_dict = b.file_dict

\* Run, the finish_task of some task or Return can be taken: the guards of
\* the three actions of Next.
StepLeft ==
    \/ pc = "start"
    \/ /\ pc = "run_forever"
       /\ \/ stopping
          \/ \E b \in DOMAIN running_tasks : running_tasks[b] # {}

\* C1: for every edge initialize_dependencies recorded, the dependant has its
\* tasks generated and submitted only when the dependency was scheduled and
\* finish_task has run for every task of the dependency. Records are passed
\* to result_callback in finish_task only, so the records of the dependency
\* reach it before any record of the dependant.
DependencyOrdering ==
    \A e \in initial_tracker :
        (e[2] \in DOMAIN generated \/ \E t \in DOMAIN submitted : t[1] = e[2]) =>
            /\ e[1] \in DOMAIN generated
            /\ TasksOf(e[1]) \subseteq finished
            /\ e[1] \notin DOMAIN running_tasks

\* A dependant has a task submitted after both tasks of its dependency were
\* handled.
DependencyOrderingWitness ==
    \E e \in initial_tracker :
        /\ e[1] # e[2]
        /\ e[1] \in DOMAIN generated /\ generated[e[1]] = 2
        /\ e[2] \in DOMAIN generated /\ generated[e[2]] = 1
        /\ <<e[2], 1>> \in DOMAIN submitted

\* Every seed and every constructed dependency instance was scheduled once
\* and execute_task was submitted once for each entry of its generate_tasks.
AllScheduledOnce ==
    /\ \A b \in seeds \cup instantiated :
          /\ CopiesIn(b, scheduled) = 1
          /\ b \in DOMAIN generated
          /\ \A t \in TasksOf(b) : CopiesIn(t, submitted) = 1
    /\ \A t \in DOMAIN submitted :
          t[1] \in DOMAIN generated /\ t \in TasksOf(t[1])

\* C2 as stated: when run has returned, every bear of the dependency closure
\* of the seeds was scheduled exactly once and execute_task was submitted
\* exactly once per generate_tasks entry.
Completeness ==
    pc = "closed" => AllScheduledOnce

\* C2, amended: the same when no bear of the tracker that
\* initialize_dependencies returned depends on itself.
CompletenessAcyclic ==
    (pc = "closed" /\ Acyclic(initial_tracker)) => AllScheduledOnce

\* run has returned from a session with a constructed dependency instance
\* and three submitted tasks.
CompletenessWitness ==
    /\ pc = "closed"
    /\ Acyclic(initial_tracker)
    /\ instantiated # {}
    /\ Cardinality(DOMAIN submitted) = 3

\* C3: no bear has its tasks generated and submitted more than once, neither
\* by the schedule_bears of run nor by those of finish_task.
AtMostOnceScheduling ==
    /\ \A b \in DOMAIN scheduled : scheduled[b] = 1
    /\ \A t \in DOMAIN submitted : submitted[t] = 1

\* Two dependants were scheduled by the schedule_bears of finish_task, after
\* the one of run scheduled their dependency.
AtMostOnceSchedulingWitness ==
    \E e1, e2 \in initial_tracker :
        /\ e1[1] = e2[1] /\ e1[2] # e2[2]
        /\ e1[1] \in bears_to_schedule
        /\ {e1[2], e2[2]} \subseteq DOMAIN scheduled \ bears_to_schedule

\* C4: initialize_dependencies constructs at most one instance per section,
\* file-dictionary and type.
OneInstancePerKey ==
    \A i, j \in instantiated :
        (SameGroup(i, j) /\ i.type = j.type) => i = j

\* C5: when a seed of type T and another seed that lists T in DEPENDENCIES
\* are in the same section and file-dictionary, no instance of T is
\* constructed for them and the other seed depends on a seed of type T.
SeedReuse ==
    pc = "initialized" =>
        \A a, b \in seeds :
            (/\ a # b
             /\ SameGroup(a, b)
             /\ \E k \in 1..Len(DEPENDENCIES[b.type]) :
                   DEPENDENCIES[b.type][k] = a.type) =>
                /\ ~ \E i \in instantiated : SameGroup(i, a) /\ i.type = a.type
                /\ \E c \in seeds :
                      /\ c.type = a.type
                      /\ SameGroup(c, a)
                      /\ <<c, b>> \in dependency_tracker

\* C6: a finish_task that caught an exception (of the task or of
\* result_callback) leaves run where it is, removes the task, resolves the
\* bear and schedules the bears it released when the task was the last one,
\* leaves the tasks of the other bears alone and stops the loop when the
\* running map is empty; and after it the session has ended or can go on,
\* unless a bear that yielded no tasks sits in the running map (which halts
\* a session with or without exceptions).
ExceptionIsolation ==
    [][\A task \in finished' \ finished :
          handled'.logged =>
            LET bear == task[1]
            IN  /\ pc' = pc
                /\ bear \in DOMAIN running_tasks' =>
                      task \notin running_tasks'[bear]
                /\ running_tasks[bear] = {task} =>
                      /\ bear \notin DOMAIN running_tasks'
                      /\ bear \notin get_all_dependencies(dependency_tracker')
                      /\ \A s \in ResolveReleased(dependency_tracker, bear) :
                            /\ CopiesIn(s, scheduled') = 1
                            /\ generated'[s] > 0 =>
                                  /\ s \in DOMAIN running_tasks'
                                  /\ running_tasks'[s] = TasksOf(s)'
                /\ \A b \in DOMAIN running_tasks \ {bear} :
                      /\ b \in DOMAIN running_tasks'
                      /\ running_tasks'[b] = running_tasks[b]
                /\ DOMAIN running_tasks' = {} => stopping'
      ]_vars
    /\ [](handled.logged =>
            \/ pc = "closed"
            \/ StepLeft
            \/ \E b \in DOMAIN running_tasks : running_tasks[b] = {})

\* The only task of a bear raised; the bear was resolved and a bear it
\* released has a task in the running map.
ExceptionIsolationWitness ==
    /\ handled.raised
    /\ \E e \in initial_tracker :
          /\ e[1] # e[2]
          /\ e[1] \in DOMAIN generated
          /\ finished = {<<e[1], 1>>}
          /\ e[1] \notin DOMAIN running_tasks
          /\ e[2] \in DOMAIN running_tasks
          /\ running_tasks[e[2]] # {}

\* C7: every record a task returned is passed to result_callback exactly
\* once. finish_task is the only caller of result_callback and runs once per
\* task, so the records passed in a session are those the tasks returned
\* exactly when every finish_task passes what its task returned.
ResultDelivery ==
    (handled.ran /\ ~ handled.raised) =>
        BagOf(handled.passed) = BagOf(handled.returned)

\* C8: a bear whose generate_tasks yielded nothing is resolved at once: it
\* has no entry in the running map and is no unresolved dependency.
EmptyTaskSet ==
    \A b \in DOMAIN generated :
        generated[b] = 0 =>
            /\ b \notin DOMAIN running_tasks
            /\ b \notin get_all_dependencies(dependency_tracker)

\* C9: a session without a dependency cycle reaches the return of run. Every
\* step of a session handles a task or moves run on, so with every handler
\* of a submitted task being run a session ends only where no step is left:
\* as long as run has not returned, a step is left.
Termination ==
    Acyclic(initial_tracker) => (pc = "closed" \/ StepLeft)

\* C10: the set initialize_dependencies returns holds exactly the seeds and
\* constructed instances without dependencies in the tracker; a seed with
\* DEPENDENCIES is not in it, an instance of a type without DEPENDENCIES is.
InitialReadySet ==
    pc = "initialized" =>
        /\ bears_to_schedule =
              {u \in seeds \cup instantiated :
                  get_dependencies(dependency_tracker, u) = {}}
        /\ \A e \in dependency_tracker :
              {e[1], e[2]} \subseteq seeds \cup instantiated
        /\ \A b \in seeds :
              DEPENDENCIES[b.type] # <<>> => b \notin bears_to_schedule
        /\ \A d \in instantiated :
              DEPENDENCIES[d.type] = <<>> => d \in bears_to_schedule

\* A seed with DEPENDENCIES is held back and a constructed instance without
\* dependencies is returned next to a seed without dependencies.
InitialReadySetWitness ==
    /\ pc = "initialized"
    /\ \E b \in seeds \ bears_to_schedule : DEPENDENCIES[b.type] # <<>>
    /\ \E d \in instantiated : d \in bears_to_schedule
    /\ \E b \in seeds : b \in bears_to_schedule

\* The sections of the bears handed to load_files.
LoadSections == {load_bears[i] : i \in 1..Len(load_bears)}

\* The files of a section that can be read.
ReadableOf(section) ==
    {filenames_of[section][k] : k \in 1..Len(filenames_of[section])}
        \ unreadable

\* C11: load_files returns a mapping that has, for every section of its
\* bears, the file-dictionary of the files of the section that could be read,
\* each filename mapped to its lines.
LoadFilesResult ==
    load_pc = "returned" =>
        \A section \in LoadSections :
            /\ section \in DOMAIN returned
            /\ returned[section] = [f \in ReadableOf(section) |-> Lines[f]]

\* C19: in one call of load_files no filename is opened twice; a file that
\* was read is in master_file_dict with its lines and every file_dict gets
\* it from there; a file that failed is in corrupt_files and in no
\* dictionary; and the file_dict of the group at hand holds the readable
\* ones of the filenames the loop has passed.
FileLoadDeduplication ==
    /\ \A f \in DOMAIN opened : opened[f] = 1
    /\ DOMAIN opened = DOMAIN master_file_dict \cup corrupt_files
    /\ corrupt_files = DOMAIN opened \cap unreadable
    /\ \A f \in DOMAIN master_file_dict : master_file_dict[f] = Lines[f]
    /\ \A f \in DOMAIN file_dict :
          /\ f \in DOMAIN master_file_dict
          /\ file_dict[f] = master_file_dict[f]
    /\ \A f \in corrupt_files :
          /\ f \notin DOMAIN file_dict
          /\ f \notin DOMAIN master_file_dict
          /\ \A section \in DOMAIN section_to_file_dict :
                f \notin DOMAIN section_to_file_dict[section]
    /\ load_pc = "files" =>
          DOMAIN file_dict =
              {filenames[k] : k \in 1..(file_i - 1)} \ unreadable

\* load_files has returned from bears whose section recurs after another
\* one, where both sections name a file that was read and a file that
\* failed.
FileLoadDeduplicationWitness ==
    /\ load_pc = "returned"
    /\ Len(SectionGroups(load_bears)) = 3
    /\ \E f, g \in Filenames :
          /\ f \in DOMAIN master_file_dict
          /\ g \in corrupt_files
          /\ \A section \in Sections :
                {f, g} \subseteq
                    {filenames_of[section][k] :
                        k \in 1..Len(filenames_of[section])}

\* C12: event_loop.stop() is called only with an empty running map: in every
\* state in which it was called the running map has no entries and
\* finish_task has run for every submitted task.
StopOnlyWhenDrained ==
    stopping =>
        /\ DOMAIN running_tasks = {}
        /\ \A t \in DOMAIN submitted : t \in finished

\* The loop was stopped after three tasks, one of them of a bear that a
\* finish_task scheduled.
StopOnlyWhenDrainedWitness ==
    /\ stopping
    /\ Cardinality(finished) = 3
    /\ \E b \in DOMAIN scheduled \ bears_to_schedule : <<b, 1>> \in finished

\* C13: dependency_tracker.resolve(b) is called at most once for a bear, and
\* for a bear with tasks exactly when finish_task has run for all of them; it
\* is called in the finish_task of the last task of b, and in that step the
\* bears it returns are scheduled and those with tasks are in the running
\* map, b is deleted from it, and the loop is not stopped while a released
\* bear has tasks outstanding.
ResolveThenDelete ==
    /\ [](/\ \A b \in DOMAIN resolved : resolved[b] = 1
          /\ \A b \in DOMAIN generated :
                generated[b] > 0 =>
                    (b \in DOMAIN resolved <=> TasksOf(b) \subseteq finished)
          /\ \A b \in DOMAIN resolved :
                /\ b \notin DOMAIN running_tasks
                /\ b \notin get_all_dependencies(dependency_tracker))
    /\ [][\A b \in DOMAIN resolved' \ DOMAIN resolved :
            /\ b \in DOMAIN running_tasks
            /\ \E task \in finished' \ finished : running_tasks[b] = {task}
            /\ \A s \in ResolveReleased(dependency_tracker, b) :
                  /\ CopiesIn(s, scheduled) = 0
                  /\ CopiesIn(s, scheduled') = 1
                  /\ generated'[s] > 0 =>
                        /\ s \in DOMAIN running_tasks'
                        /\ running_tasks'[s] = TasksOf(s)'
                        /\ ~ stopping'
         ]_vars

\* The second task of a bear was handled, the bear was resolved and deleted,
\* and a bear this released has a task in the running map.
ResolveThenDeleteWitness ==
    \E e \in initial_tracker :
        /\ e[1] \in DOMAIN resolved
        /\ generated[e[1]] = 2
        /\ e[1] \notin DOMAIN running_tasks
        /\ e[2] \in DOMAIN running_tasks
        /\ running_tasks[e[2]] # {}
        /\ ~ stopping

\* The seeds of the group number g of groupby.
GroupSeeds(g) == {grouping[g][i] : i \in 1..Len(grouping[g])}

\* The units of the group number g: its seeds and the instances constructed
\* while it was traversed.
GroupUnits(g) == GroupSeeds(g) \cup {d \in instantiated : d.n = g}

\* The unit lists the type in its DEPENDENCIES.
Lists(unit, type) ==
    \E k \in 1..Len(DEPENDENCIES[unit.type]) : DEPENDENCIES[unit.type][k] = type

\* The first and the last seed of the type in the group number g, in the
\* order in which the loop at Core.py:264 inserts them.
FirstOfType(g, type) ==
    grouping[g][CHOOSE i \in 1..Len(grouping[g]) :
                    /\ grouping[g][i].type = type
                    /\ \A j \in 1..(i - 1) : grouping[g][j].type # type]

LastOfType(g, type) ==
    grouping[g][CHOOSE i \in 1..Len(grouping[g]) :
                    /\ grouping[g][i].type = type
                    /\ \A j \in (i + 1)..Len(grouping[g]) :
                          grouping[g][j].type # type]

\* The seed is a unit of its own: it is scheduled at once when its type has
\* no DEPENDENCIES, else it waits for a unit of each type it lists.
KeptAsUnit(seed) ==
    /\ seed \in seeds
    /\ DEPENDENCIES[seed.type] = <<>> => seed \in bears_to_schedule
    /\ \A k \in 1..Len(DEPENDENCIES[seed.type]) :
          \E d \in get_dependencies(dependency_tracker, seed) :
              d.type = DEPENDENCIES[seed.type][k]

\* Every unit of the group number g that lists the type depends on the
\* given seed and on no other unit of the type.
BoundTo(g, type, seed) ==
    \A u \in GroupUnits(g) :
        Lists(u, type) =>
            /\ <<seed, u>> \in dependency_tracker
            /\ \A d \in get_dependencies(dependency_tracker, u) :
                  d.type = type => d = seed

\* C14 as stated: of two seeds of one type in a group of groupby both are
\* kept as units, and the units of the group that list the type depend on
\* the one that was inserted first.
SameTypeSeedsFirst ==
    pc = "initialized" =>
        \A g \in 1..Len(grouping) : \A a, b \in GroupSeeds(g) :
            (a # b /\ a.type = b.type) =>
                /\ KeptAsUnit(a) /\ KeptAsUnit(b)
                /\ BoundTo(g, a.type, FirstOfType(g, a.type))

\* C14, amended: the same with the seed that was inserted last, whose
\* entry at Core.py:266 overwrote those of the earlier ones.
SameTypeSeedsLast ==
    pc = "initialized" =>
        \A g \in 1..Len(grouping) : \A a, b \in GroupSeeds(g) :
            (a # b /\ a.type = b.type) =>
                /\ KeptAsUnit(a) /\ KeptAsUnit(b)
                /\ BoundTo(g, a.type, LastOfType(g, a.type))

\* Two seeds of one type and a third seed that lists the type were grouped
\* together; the third depends on one of the two.
SameTypeSeedsWitness ==
    /\ pc = "initialized"
    /\ \E g \in 1..Len(grouping) : \E a, b, u \in GroupSeeds(g) :
          /\ a # b /\ a.type = b.type
          /\ u.type # a.type
          /\ Lists(u, a.type)
          /\ <<a, u>> \in dependency_tracker

\* The unit the type_to_instance_map of the group number g has for the type
\* after the traversal: the last seed of the type when the group has one,
\* else the instance constructed with the section and file_dict of the group.
BoundInstance(g, type) ==
    IF \E b \in GroupSeeds(g) : b.type = type
    THEN LastOfType(g, type)
    ELSE Bear(FALSE, g, type, grouping[g][1].section, grouping[g][1].file_dict)

\* Every edge joins two units of one section and file_dict, and every
\* constructed instance has the section and file_dict of the group it was
\* constructed for.
NoEdgeAcrossGroups ==
    /\ \A e \in dependency_tracker : SameGroup(e[1], e[2])
    /\ \A d \in instantiated :
          /\ d.n \in 1..Len(grouping)
          /\ GroupKey(d) = GroupKey(grouping[d.n][1])
          /\ \A e \in dependency_tracker :
                e[1] = d => e[2] \in GroupUnits(d.n)

\* C15 as stated: for seeds u and v of different sections that both list a
\* type, two distinct instances of the type are constructed, one with the
\* section and file_dict of each, u depends on the one and v on the other,
\* and no edge joins units of different groups.
ScopeIsolationAsStated ==
    pc = "initialized" =>
        /\ NoEdgeAcrossGroups
        /\ \A u, v \in seeds : \A type \in Types :
              (u.section # v.section /\ Lists(u, type) /\ Lists(v, type)) =>
                  \E i, j \in instantiated :
                      /\ i # j
                      /\ i.type = type /\ j.type = type
                      /\ SameGroup(i, u) /\ SameGroup(j, v)
                      /\ <<i, u>> \in dependency_tracker
                      /\ <<j, v>> \in dependency_tracker

\* C15, amended: u and v depend on two distinct units of the type, each of
\* the section and file_dict of its dependant: the seed of the type their
\* group holds (the one inserted last) or else an instance constructed for
\* the group; and no edge joins units of different groups.
ScopeIsolation ==
    pc = "initialized" =>
        /\ NoEdgeAcrossGroups
        /\ \A g, h \in 1..Len(grouping) :
              \A u \in GroupSeeds(g), v \in GroupSeeds(h) : \A type \in Types :
                  (u.section # v.section /\ Lists(u, type) /\ Lists(v, type)) =>
                      LET p == BoundInstance(g, type)
                          q == BoundInstance(h, type)
                      IN  /\ p # q
                          /\ SameGroup(p, u) /\ SameGroup(q, v)
                          /\ p \in seeds \cup instantiated
                          /\ q \in seeds \cup instantiated
                          /\ <<p, u>> \in dependency_tracker
                          /\ <<q, v>> \in dependency_tracker
                          /\ \A d \in get_dependencies(dependency_tracker, u) :
                                d.type = type => d = p
                          /\ \A d \in get_dependencies(dependency_tracker, v) :
                                d.type = type => d = q

\* Two seeds of different sections list one type; an instance of it was
\* constructed for each and each seed depends on its own.
ScopeIsolationWitness ==
    /\ pc = "initialized"
    /\ \E u, v \in seeds : \E i, j \in instantiated :
          /\ u.section # v.section
          /\ i # j /\ i.type = j.type
          /\ Lists(u, i.type) /\ Lists(v, i.type)
          /\ i.section = u.section /\ j.section = v.section
          /\ <<i, u>> \in dependency_tracker
          /\ <<j, v>> \in dependency_tracker

\* C16: a bear with unresolved dependencies that is handed to schedule_bears
\* has no tasks generated or submitted and gets no entry in the running
\* map, and the tracker stays as it was; the other bears of the call have
\* their tasks generated, submitted and entered.
DefensiveHoldBack ==
    pc = "scheduled" =>
        /\ dependency_tracker = initial_tracker
        /\ DOMAIN running_tasks \subseteq given
        /\ \A b \in given :
              IF get_dependencies(dependency_tracker, b) # {}
              THEN /\ b \notin DOMAIN running_tasks
                   /\ b \notin DOMAIN generated
                   /\ b \notin DOMAIN scheduled
                   /\ \A t \in DOMAIN submitted : t[1] # b
              ELSE /\ b \in DOMAIN generated
                   /\ CopiesIn(b, scheduled) = 1
                   /\ b \in DOMAIN running_tasks
                   /\ running_tasks[b] = TasksOf(b)
                   /\ \A t \in TasksOf(b) : CopiesIn(t, submitted) = 1

\* schedule_bears was handed a bear with unresolved dependencies together
\* with a bear that has none and yields tasks.
DefensiveHoldBackWitness ==
    /\ pc = "scheduled"
    /\ \E b, c \in given :
          /\ get_dependencies(dependency_tracker, b) # {}
          /\ c \in DOMAIN running_tasks
          /\ running_tasks[c] # {}

\* The types a type lists in its DEPENDENCIES.
ListedTypes(type) ==
    {DEPENDENCIES[type][k] : k \in 1..Len(DEPENDENCIES[type])}

\* The types reached from a set of types along DEPENDENCIES.
RECURSIVE TypeClosure(_)
TypeClosure(types) ==
    LET more == types \cup UNION {ListedTypes(t) : t \in types}
    IN  IF more = types THEN types ELSE TypeClosure(more)

\* The types on a cycle of DEPENDENCIES, and the types that are on one or
\* reach one.
CyclicTypes == {t \in Types : t \in TypeClosure(ListedTypes(t))}

StalledTypes == {t \in Types : TypeClosure({t}) \cap CyclicTypes # {}}

\* The unit was never ready: it is not in the set initialize_dependencies
\* returned, had no tasks generated or submitted, has no entry in the
\* running map and still has unresolved dependencies.
NeverReady(u) ==
    /\ u \notin bears_to_schedule
    /\ u \notin DOMAIN scheduled
    /\ u \notin DOMAIN generated
    /\ u \notin DOMAIN running_tasks
    /\ \A t \in DOMAIN submitted : t[1] # u
    /\ get_dependencies(dependency_tracker, u) # {}

\* C17: with a cycle among the types reached from the seeds,
\* initialize_dependencies returns, every unit has a unit of each type it
\* lists as dependency, and the units of the types on the cycle, the units
\* of the types that reach it and the units that depend on themselves in the
\* returned tracker are never ready in any state of the session.
CyclicTypesStall ==
    pc # "start" =>
        /\ \A u \in seeds \cup instantiated : \A type \in ListedTypes(u.type) :
              \E d \in seeds \cup instantiated :
                  d.type = type /\ <<d, u>> \in initial_tracker
        /\ \A u \in seeds \cup instantiated :
              u.type \in StalledTypes => NeverReady(u)
        /\ \A e \in Peel(initial_tracker) : NeverReady(e[2])

\* run has returned after the task of a bear was handled, while an instance
\* of a type on a cycle was constructed for a seed.
CyclicTypesStallWitness ==
    /\ pc = "closed"
    /\ finished # {}
    /\ \E e \in initial_tracker :
          /\ e[1] \in instantiated
          /\ e[2] \in seeds
          /\ e[1].type \in CyclicTypes
          /\ <<e[2], e[1]>> \in initial_tracker

\* C18: no edge of the tracker has the same unit as dependency and as
\* dependant, in the tracker initialize_dependencies returns and in every
\* later state of the session.
NoSelfLoop ==
    \A e \in dependency_tracker : e[1] # e[2]

====
